---- MODULE Spec2Model ----
(***************************************************************************)
(* Model of get_ndas2.py: the cdas2 mirror (getDirDate, getFile, main).    *)
(* Names are sequences of one-character strings so that the regular        *)
(* expression of getDirDate and the slice inFile[7:9] are computed, not    *)
(* assumed.  The FTP server and the local filesystem are the environment:  *)
(* every call into them either succeeds or raises.                         *)
(***************************************************************************)
EXTENDS Integers, Sequences, FiniteSets, TLC

\* ---------------------------------------------------------------- bounds
MaxDirs == 2      \* longest top-level listing
MaxFiles == 2     \* longest listing of a date-directory
MaxFails == 1     \* environment failures raised over a behaviour
MaxRuns == 2      \* invocations of main
MaxSize == 2      \* largest file size
StartTime == 3    \* clock value while the first run of main executes

\* ------------------------------------------------------- names and pools
\* cdas2.20230101
D1 == <<"c","d","a","s","2",".","2","0","2","3","0","1","0","1">>
\* cdas2.20230201
D2 == <<"c","d","a","s","2",".","2","0","2","3","0","2","0","1">>
\* cdas2.20231301 (matches the pattern, month 13)
DInv == <<"c","d","a","s","2",".","2","0","2","3","1","3","0","1">>
\* badname
DBad == <<"b","a","d","n","a","m","e">>
\* cdas2.t00z.sanl
F1 == <<"c","d","a","s","2",".","t","0","0","z",".","s","a","n","l">>
\* cdas2.t06z.sanl
F2 == <<"c","d","a","s","2",".","t","0","6","z",".","s","a","n","l">>
\* cdas2.t00z.sfcanl (same characters 7-8 as cdas2.t00z.sanl)
F3 == <<"c","d","a","s","2",".","t","0","0","z",".","s","f","c","a","n","l">>

DirNames == {D1, D2, DInv, DBad}
FileNames == {F1, F2, F3}

\* ftpPath = "pub/data/nccf/com/cdas2/prod", one name per component
ftpPath ==
  << <<"p","u","b">>, <<"d","a","t","a">>, <<"n","c","c","f">>,
     <<"c","o","m">>, <<"c","d","a","s","2">>, <<"p","r","o","d">> >>

\* sequences of distinct elements of S, of length at most n
RECURSIVE Listings(_, _)
Listings(S, n) ==
  IF n = 0 THEN { <<>> }
  ELSE LET shorter == Listings(S, n - 1)
       IN  shorter \cup { Append(l, x) : l \in shorter, x \in S }

DistinctListings(S, n) ==
  { l \in Listings(S, n) : \A a, b \in 1..Len(l) : l[a] = l[b] => a = b }

\* the file names in the order the server lists them
FileOrder == <<F1, F3, F2>>

\* the entries of seq whose positions are in S, in the order of seq
RECURSIVE Pick(_, _)
Pick(seq, S) ==
  IF seq = <<>> THEN <<>>
  ELSE LET front == Pick(SubSeq(seq, 1, Len(seq) - 1), S)
       IN  IF Len(seq) \in S THEN Append(front, seq[Len(seq)]) ELSE front

\* listings of at most n of the names of seq, in the server's order
OrderedListings(seq, n) ==
  { Pick(seq, S) : S \in { T \in SUBSET (1..Len(seq)) : Cardinality(T) <= n } }

\* ------------------------------------------------------------ getDirDate
DigitChars == <<"0","1","2","3","4","5","6","7","8","9">>
IsDigit(c) == \E n \in 1..10 : DigitChars[n] = c
DigitVal(c) == (CHOOSE n \in 1..10 : DigitChars[n] = c) - 1
Cdas2Dot == <<"c","d","a","s","2",".">>

\* re.fullmatch(r'cdas2\.\d{8}', inDir)
MatchesDirPattern(inDir) ==
  /\ Len(inDir) = 14
  /\ SubSeq(inDir, 1, 6) = Cdas2Dot
  /\ \A k \in 7..14 : IsDigit(inDir[k])

Num(s) ==
  LET F[k \in 0..Len(s)] == IF k = 0 THEN 0 ELSE 10 * F[k - 1] + DigitVal(s[k])
  IN  F[Len(s)]

IsLeap(y) == (y % 4 = 0 /\ y % 100 # 0) \/ y % 400 = 0
DaysInMonth(y, m) ==
  IF m = 2 THEN (IF IsLeap(y) THEN 29 ELSE 28)
  ELSE IF m \in {4, 6, 9, 11} THEN 30 ELSE 31

None == [kind |-> "None", year |-> 0, month |-> 0, day |-> 0]
ValueError == [kind |-> "ValueError", year |-> 0, month |-> 0, day |-> 0]

\* datetime.datetime.strptime(inDir, 'cdas2.%Y%m%d') on a matching name
strptime(inDir) ==
  LET y == Num(SubSeq(inDir, 7, 10))
      m == Num(SubSeq(inDir, 11, 12))
      d == Num(SubSeq(inDir, 13, 14))
  IN  IF y >= 1 /\ m \in 1..12 /\ d >= 1 /\ d <= DaysInMonth(y, m)
      THEN [kind |-> "date", year |-> y, month |-> m, day |-> d]
      ELSE ValueError

getDirDate(inDir) ==
  IF MatchesDirPattern(inDir) THEN strptime(inDir) ELSE None

\* ------------------------------------------------- local names (main)
MonthAbbr ==
  <<"jan","feb","mar","apr","may","jun","jul","aug","sep","oct","nov","dec">>

\* dirDate.strftime('%Y%b').lower()
OutDir(dirDate) == <<dirDate.year, MonthAbbr[dirDate.month]>>

Pad(n, w) ==
  LET F[k \in 0..w] ==
        IF k = 0 THEN <<>>
        ELSE Append(F[k - 1], DigitChars[((n \div (10 ^ (w - k))) % 10) + 1])
  IN  F[w]

\* dirDate.strftime('%Y%m%d')
DateDigits(dirDate) ==
  Pad(dirDate.year, 4) \o Pad(dirDate.month, 2) \o Pad(dirDate.day, 2)

Min(a, b) == IF a < b THEN a ELSE b

\* Python s[lo:hi] for 0 <= lo <= hi
Slice(s, lo, hi) == SubSeq(s, lo + 1, Min(hi, Len(s)))

SigAnl == <<"s","i","g",".","a","n","l",".">>
Ieee == <<".","i","e","e","e">>

\* "sig.anl.{0}{1}.ieee".format(dirDate.strftime('%Y%m%d'), inFile[7:9])
OutFile(dirDate, inFile) ==
  SigAnl \o DateDigits(dirDate) \o Slice(inFile, 7, 9) \o Ieee

\* os.path.join(fullOutDir, outFile), relative to OUTPUT_DIR
Target(dirDate, inFile) == <<OutDir(dirDate), OutFile(dirDate, inFile)>>

\* ------------------------------------------------------------ the remote
\* size and modification time the server reports for a regular file
RemoteSize == MaxSize
RemoteMTime == StartTime - 1
\* the local clock during run r: later than the remote files were made
Clock(r) == StartTime + r - 1

IsDateDir(c) == Len(c) = Len(ftpPath) + 1

VARIABLES
  pc,           \* position of main / getFile
  run,          \* which invocation of main this is
  status,       \* "running", "ok" (exit 0), "fatal" (exit(msg)), "crash"
  exc,          \* uncaught exception of a crash, with its line
  root,         \* OUTPUT_DIR is a directory
  ldirs,        \* observed sub-directories of OUTPUT_DIR: outDir -> exists
  fs,           \* observed target paths: path -> file state
  remoteTop,    \* entries of the base path on the server
  remoteFiles,  \* entries of each date-directory on the server
  session,      \* "none", "open", "closed"
  cwd,          \* working directory of the session
  dirs, i,      \* main: top-level listing and index of inDir
  dirDate,      \* main: getDirDate(inDir)
  files, j,     \* main: listing of the directory and index of inFile
  source, target, doDownload,
  target_size, target_ctime, source_size, source_ctime,
  myRet,        \* value returned by the last call of getFile
  fails,        \* environment failures raised so far
  log           \* commands this run sent on the session, and failed opens

vars == <<pc, run, status, exc, root, ldirs, fs, remoteTop, remoteFiles,
          session, cwd, dirs, i, dirDate, files, j, source, target,
          doDownload, target_size, target_ctime, source_size, source_ctime,
          myRet, fails, log>>

world == <<root, remoteTop, remoteFiles>>
loopVars == <<dirs, i, dirDate, files, j>>
getFileVars == <<source, target, doDownload, target_size, target_ctime,
                 source_size, source_ctime, myRet>>
localFs == <<ldirs, fs>>

Unset == -1
NoName == <<>>
NoPath == <<>>
Absent == [exists |-> FALSE, size |-> 0, ctime |-> 0, src |-> NoPath, complete |-> FALSE]
File(sz, ct, from, whole) ==
  [exists |-> TRUE, size |-> sz, ctime |-> ct, src |-> from, complete |-> whole]

Ev(op, di, fj, ok) == [op |-> op, i |-> di, j |-> fj, ok |-> ok]

\* the environment may raise only while its budget lasts
MayFail(ok) == ok \/ fails < MaxFails
Count(ok) == IF ok THEN fails ELSE fails + 1

\* ftp.nlst() in working directory c
RemoteListing(c) ==
  IF IsDateDir(c) THEN remoteFiles
  ELSE IF c = ftpPath THEN remoteTop
  ELSE << ftpPath[Len(c) + 1] >>

\* ftp.cwd("..") from working directory c
Parent(c) == IF c = <<>> THEN c ELSE SubSeq(c, 1, Len(c) - 1)

\* the entries of a date-directory are regular files, all others directories
IsRemoteFile(c, name) ==
  IsDateDir(c) /\ \E k \in 1..Len(remoteFiles) : remoteFiles[k] = name

Put(f, p, v) == [q \in DOMAIN f \cup {p} |-> IF q = p THEN v ELSE f[q]]

Init ==
  /\ pc = "preflight"
  /\ run = 1
  /\ status = "running"
  /\ exc = "none"
  /\ root \in BOOLEAN
  /\ ldirs = << >>
  /\ fs = << >>
  /\ remoteTop \in DistinctListings(DirNames, MaxDirs)
  /\ remoteFiles \in OrderedListings(FileOrder, MaxFiles)
  /\ session = "none"
  /\ cwd = <<>>
  /\ dirs = <<>>
  /\ i = 0
  /\ dirDate = None
  /\ files = <<>>
  /\ j = 0
  /\ source = NoName
  /\ target = NoPath
  /\ doDownload = TRUE
  /\ target_size = Unset
  /\ target_ctime = Unset
  /\ source_size = Unset
  /\ source_ctime = Unset
  /\ myRet = FALSE
  /\ fails = 0
  /\ log = <<>>

\* the process ends: exit(msg), an uncaught exception, or the end of main
Exit(how, what) ==
  /\ pc' = "exited"
  /\ status' = how
  /\ exc' = what

\* Preflight going on to the connection whether or not the root exists
PreflightNoCheck ==
  /\ pc = "preflight"
  /\ pc' = "connect"
  /\ UNCHANGED <<status, exc>>
  /\ UNCHANGED <<run, world, localFs, session, cwd, loopVars, getFileVars,
                 fails, log>>

\* main, lines 106-111
Preflight ==
  /\ pc = "preflight"
  /\ IF root
     THEN pc' = "connect" /\ UNCHANGED <<status, exc>>
     ELSE Exit("fatal", "none")
  /\ UNCHANGED <<run, world, localFs, session, cwd, loopVars, getFileVars,
                 fails, log>>

\* main, lines 113-117
Connect ==
  /\ pc = "connect"
  /\ \E ok \in BOOLEAN :
       /\ MayFail(ok)
       /\ fails' = Count(ok)
       /\ log' = Append(log, Ev("CONNECT", 0, 0, ok))
       /\ IF ok
          THEN /\ session' = "open"
               /\ pc' = "login"
               /\ UNCHANGED <<status, exc>>
          ELSE /\ Exit("fatal", "none")
               /\ UNCHANGED session
  /\ UNCHANGED <<run, world, localFs, cwd, loopVars, getFileVars>>

\* main, lines 120-126
Login ==
  /\ pc = "login"
  /\ \E ok \in BOOLEAN :
       /\ MayFail(ok)
       /\ fails' = Count(ok)
       /\ IF ok
          THEN /\ pc' = "cwdBase"
               /\ log' = Append(log, Ev("LOGIN", 0, 0, TRUE))
               /\ UNCHANGED <<status, exc, session>>
          ELSE /\ session' = "closed"
               /\ log' = log \o <<Ev("LOGIN", 0, 0, FALSE), Ev("QUIT", 0, 0, TRUE)>>
               /\ Exit("fatal", "none")
  /\ UNCHANGED <<run, world, localFs, cwd, loopVars, getFileVars>>

\* main, lines 128-134
CwdBase ==
  /\ pc = "cwdBase"
  /\ \E ok \in BOOLEAN :
       /\ MayFail(ok)
       /\ fails' = Count(ok)
       /\ IF ok
          THEN /\ cwd' = ftpPath
               /\ pc' = "listTop"
               /\ log' = Append(log, Ev("CWD", 0, 0, TRUE))
               /\ UNCHANGED <<status, exc, session>>
          ELSE /\ session' = "closed"
               /\ log' = log \o <<Ev("CWD", 0, 0, FALSE), Ev("QUIT", 0, 0, TRUE)>>
               /\ Exit("fatal", "none")
               /\ UNCHANGED cwd
  /\ UNCHANGED <<run, world, localFs, loopVars, getFileVars>>

\* ListTop taking a failed listing of the base path for an empty one
ListTopGoesOn ==
  /\ pc = "listTop"
  /\ \E ok \in BOOLEAN :
       /\ MayFail(ok)
       /\ fails' = Count(ok)
       /\ log' = Append(log, Ev("NLST", 0, 0, ok))
       /\ dirs' = IF ok THEN RemoteListing(cwd) ELSE <<>>
       /\ i' = 1
       /\ pc' = "loop"
       /\ UNCHANGED <<status, exc>>
  /\ UNCHANGED <<run, world, localFs, session, cwd, dirDate, files, j,
                 getFileVars>>

\* main, lines 136-140
ListTop ==
  /\ pc = "listTop"
  /\ \E ok \in BOOLEAN :
       /\ MayFail(ok)
       /\ fails' = Count(ok)
       /\ log' = Append(log, Ev("NLST", 0, 0, ok))
       /\ IF ok
          THEN /\ dirs' = RemoteListing(cwd)
               /\ i' = 1
               /\ pc' = "loop"
               /\ UNCHANGED <<status, exc>>
          ELSE /\ Exit("fatal", "none")
               /\ UNCHANGED <<dirs, i>>
  /\ UNCHANGED <<run, world, localFs, session, cwd, dirDate, files, j,
                 getFileVars>>

\* main, lines 142-149: next inDir of the for loop, getDirDate, the skip
LoopHead ==
  /\ pc = "loop"
  /\ IF i > Len(dirs)
     THEN /\ pc' = "quit"
          /\ UNCHANGED <<status, exc, dirDate>>
     ELSE LET d == getDirDate(dirs[i])
          IN  /\ dirDate' = d
              /\ IF d.kind = "ValueError"
                 THEN Exit("crash", "ValueError:26")
                 ELSE IF d.kind = "None"
                 THEN Exit("crash", "IndexError:147")
                 ELSE pc' = "outdir" /\ UNCHANGED <<status, exc>>
  /\ UNCHANGED <<run, world, localFs, session, cwd, dirs, i, files, j,
                 getFileVars, fails, log>>

\* main, lines 151-168: os.path.isdir(fullOutDir), os.mkdir(fullOutDir)
EnsureOutDir ==
  /\ pc = "outdir"
  /\ LET outDir == OutDir(dirDate)
     IN  \E there \in BOOLEAN, ok \in BOOLEAN :
           /\ outDir \in DOMAIN ldirs => there = ldirs[outDir]
           /\ there => ok
           /\ MayFail(ok)
           /\ fails' = Count(ok)
           /\ IF there
              THEN /\ ldirs' = Put(ldirs, outDir, TRUE)
                   /\ pc' = "enter"
                   /\ UNCHANGED <<status, exc>>
              ELSE IF ok
              THEN /\ ldirs' = Put(ldirs, outDir, TRUE)
                   /\ pc' = "enter"
                   /\ UNCHANGED <<status, exc>>
              ELSE /\ ldirs' = Put(ldirs, outDir, FALSE)
                   /\ Exit("crash", "IndexError:161")
  /\ UNCHANGED <<run, world, fs, session, cwd, loopVars, getFileVars, log>>

\* main, lines 169-174: ftp.cwd(inDir); the handler only prints
EnterDir ==
  /\ pc = "enter"
  /\ \E ok \in BOOLEAN :
       /\ cwd # ftpPath => ~ok
       /\ cwd = ftpPath => MayFail(ok)
       /\ fails' = IF cwd = ftpPath THEN Count(ok) ELSE fails
       /\ log' = Append(log, Ev("CWD", i, 0, ok))
       /\ cwd' = IF ok THEN Append(cwd, dirs[i]) ELSE cwd
  /\ pc' = "list"
  /\ UNCHANGED <<run, status, exc, world, localFs, session, loopVars,
                 getFileVars>>

\* ListFiles with the handler of line 181 forgetting ftp.cwd("..")
ListFilesNoReturn ==
  /\ pc = "list"
  /\ \E ok \in BOOLEAN :
       /\ MayFail(ok)
       /\ fails' = Count(ok)
       /\ log' = Append(log, Ev("NLST", i, 0, ok))
       /\ IF ok
          THEN /\ files' = RemoteListing(cwd)
               /\ j' = 1
               /\ i' = i
               /\ pc' = "files"
          ELSE /\ pc' = "loop"
               /\ i' = i + 1
               /\ UNCHANGED <<files, j>>
  /\ UNCHANGED <<run, status, exc, world, localFs, session, cwd, dirs,
                 dirDate, getFileVars>>

\* main, lines 176-182: ftp.nlst() in whatever directory the session is in
ListFiles ==
  /\ pc = "list"
  /\ \E ok \in BOOLEAN :
       /\ MayFail(ok)
       /\ fails' = Count(ok)
       /\ log' = Append(log, Ev("NLST", i, 0, ok))
       /\ IF ok
          THEN /\ files' = RemoteListing(cwd)
               /\ j' = 1
               /\ pc' = "files"
          ELSE /\ pc' = "leave"
               /\ UNCHANGED <<files, j>>
  /\ UNCHANGED <<run, status, exc, world, localFs, session, cwd, dirs, i,
                 dirDate, getFileVars>>

\* main, lines 184-193: next inFile of the for loop, the call of getFile
\* (lines 44-52: the defaults of getFile)
FileLoop ==
  /\ pc = "files"
  /\ IF j > Len(files)
     THEN /\ pc' = "leave"
          /\ UNCHANGED getFileVars
     ELSE /\ source' = files[j]
          /\ target' = Target(dirDate, files[j])
          /\ myRet' = FALSE
          /\ doDownload' = TRUE
          /\ target_size' = Unset
          /\ target_ctime' = Unset
          /\ source_size' = Unset
          /\ source_ctime' = Unset
          /\ pc' = "getFile"
  /\ UNCHANGED <<run, status, exc, world, localFs, session, cwd, loopVars,
                 fails, log>>

\* what os.path.isfile, getsize and getctime can find at path p: what was
\* seen or written there before, else no file or a file of an earlier time
LocalStates(f, p) ==
  IF p \in DOMAIN f
  THEN { f[p] }
  ELSE {Absent} \cup { File(sz, ct, NoPath, TRUE) :
                         sz \in 1..MaxSize, ct \in (StartTime - 2)..StartTime }

\* SameAsTarget taking equal times for "remote older"
SameAsTargetLoose(ssize, sctime, tsize, tctime) == ssize = tsize /\ sctime <= tctime

\* getFile, lines 76-81: the comparison that sets doDownload
SameAsTarget(ssize, sctime, tsize, tctime) == ssize = tsize /\ sctime < tctime

\* GetFileCheck asking the server for size and time before it looks at the
\* target
GetFileCheckQueriesFirst ==
  /\ pc = "getFile"
  /\ \E st \in LocalStates(fs, target), statOk \in BOOLEAN, metaOk \in BOOLEAN :
       /\ fs' = Put(fs, target, st)
       /\ ~st.exists => statOk
       /\ ~IsRemoteFile(cwd, source) => ~metaOk
       /\ IF ~statOk \/ (~metaOk /\ IsRemoteFile(cwd, source))
          THEN fails < MaxFails /\ fails' = fails + 1
          ELSE fails' = fails
       /\ IF ~metaOk
          THEN /\ Exit("crash", "IndexError:71")
               /\ UNCHANGED <<doDownload, target_size, target_ctime,
                              source_size, source_ctime>>
          ELSE /\ source_size' = RemoteSize
               /\ source_ctime' = RemoteMTime
               /\ pc' = "retr"
               /\ UNCHANGED <<status, exc>>
               /\ IF ~st.exists \/ ~statOk
                  THEN UNCHANGED <<doDownload, target_size, target_ctime>>
                  ELSE /\ target_size' = st.size
                       /\ target_ctime' = st.ctime
                       /\ doDownload' =
                            ~SameAsTarget(RemoteSize, RemoteMTime, st.size, st.ctime)
  /\ UNCHANGED <<run, world, ldirs, session, cwd, loopVars, source, target,
                 myRet, log>>

\* getFile, lines 54-81: the target's and the source's size and time
GetFileCheck ==
  /\ pc = "getFile"
  /\ \E st \in LocalStates(fs, target), statOk \in BOOLEAN, metaOk \in BOOLEAN :
       /\ fs' = Put(fs, target, st)
       /\ ~st.exists => statOk /\ metaOk
       /\ ~statOk => metaOk
       /\ ~IsRemoteFile(cwd, source) /\ st.exists /\ statOk => ~metaOk
       /\ IF ~statOk \/ (~metaOk /\ IsRemoteFile(cwd, source))
          THEN fails < MaxFails /\ fails' = fails + 1
          ELSE fails' = fails
       /\ IF ~st.exists
          THEN /\ pc' = "retr"
               /\ UNCHANGED <<status, exc, doDownload, target_size,
                              target_ctime, source_size, source_ctime>>
          ELSE IF ~statOk
          THEN /\ pc' = "retr"
               /\ UNCHANGED <<status, exc, doDownload, target_size,
                              target_ctime, source_size, source_ctime>>
          ELSE /\ target_size' = st.size
               /\ target_ctime' = st.ctime
               /\ IF ~metaOk
                  THEN /\ Exit("crash", "IndexError:71")
                       /\ UNCHANGED <<doDownload, source_size, source_ctime>>
                  ELSE /\ source_size' = RemoteSize
                       /\ source_ctime' = RemoteMTime
                       /\ doDownload' =
                            ~SameAsTarget(RemoteSize, RemoteMTime, st.size, st.ctime)
                       /\ pc' = "retr"
                       /\ UNCHANGED <<status, exc>>
  /\ UNCHANGED <<run, world, ldirs, session, cwd, loopVars, source, target,
                 myRet, log>>

\* GetFileTransfer trying the same file again after a failed transfer
GetFileTransferRetry ==
  /\ pc = "retr"
  /\ \E openOk \in BOOLEAN, retrOk \in BOOLEAN, got \in 0..(RemoteSize - 1) :
       /\ ~openOk => retrOk /\ got = 0
       /\ retrOk => got = 0
       /\ ~IsRemoteFile(cwd, source) /\ openOk => ~retrOk /\ got = 0
       /\ IF ~openOk \/ (~retrOk /\ IsRemoteFile(cwd, source))
          THEN fails < MaxFails /\ fails' = fails + 1
          ELSE fails' = fails
       /\ IF ~openOk
          THEN /\ log' = Append(log, Ev("OPEN", i, j, FALSE))
               /\ myRet' = FALSE
               /\ UNCHANGED fs
          ELSE /\ log' = Append(log, Ev("RETR", i, j, retrOk))
               /\ myRet' = retrOk
               /\ fs' = Put(fs, target,
                            IF retrOk
                            THEN File(RemoteSize, Clock(run), Append(cwd, source), TRUE)
                            ELSE File(got, Clock(run), Append(cwd, source), FALSE))
       /\ IF openOk /\ retrOk
          THEN /\ source' = NoName
               /\ target' = NoPath
               /\ j' = j + 1
               /\ pc' = "files"
          ELSE /\ pc' = "retr"
               /\ UNCHANGED <<source, target, j>>
  /\ doDownload' = TRUE
  /\ target_size' = Unset
  /\ target_ctime' = Unset
  /\ source_size' = Unset
  /\ source_ctime' = Unset
  /\ UNCHANGED <<run, status, exc, world, ldirs, session, cwd, dirs, i,
                 dirDate, files>>

\* getFile, lines 82-91: open(target, 'wb'), RETR, the return to main
GetFileTransfer ==
  /\ pc = "retr"
  /\ \E openOk \in BOOLEAN, retrOk \in BOOLEAN, got \in 0..(RemoteSize - 1) :
       /\ ~openOk => retrOk /\ got = 0
       /\ retrOk => got = 0
       /\ ~IsRemoteFile(cwd, source) /\ openOk => ~retrOk /\ got = 0
       /\ IF ~openOk \/ (~retrOk /\ IsRemoteFile(cwd, source))
          THEN fails < MaxFails /\ fails' = fails + 1
          ELSE fails' = fails
       /\ IF ~openOk
          THEN /\ log' = Append(log, Ev("OPEN", i, j, FALSE))
               /\ myRet' = FALSE
               /\ UNCHANGED fs
          ELSE /\ log' = Append(log, Ev("RETR", i, j, retrOk))
               /\ myRet' = retrOk
               /\ fs' = Put(fs, target,
                            IF retrOk
                            THEN File(RemoteSize, Clock(run), Append(cwd, source), TRUE)
                            ELSE File(got, Clock(run), Append(cwd, source), FALSE))
  /\ source' = NoName
  /\ target' = NoPath
  /\ doDownload' = TRUE
  /\ target_size' = Unset
  /\ target_ctime' = Unset
  /\ source_size' = Unset
  /\ source_ctime' = Unset
  /\ j' = j + 1
  /\ pc' = "files"
  /\ UNCHANGED <<run, status, exc, world, ldirs, session, cwd, dirs, i,
                 dirDate, files>>

\* main, line 181 and lines 194-195: ftp.cwd("..") outside any try
ReturnToParent ==
  /\ pc = "leave"
  /\ \E ok \in BOOLEAN :
       /\ MayFail(ok)
       /\ fails' = Count(ok)
       /\ log' = Append(log, Ev("CDUP", i, 0, ok))
       /\ IF ok
          THEN /\ cwd' = Parent(cwd)
               /\ i' = i + 1
               /\ pc' = "loop"
               /\ UNCHANGED <<status, exc>>
          ELSE /\ Exit("crash", "ftplib.Error:181,195")
               /\ UNCHANGED <<cwd, i>>
  /\ UNCHANGED <<run, world, localFs, session, dirs, dirDate, files, j,
                 getFileVars>>

\* main, line 196
Quit ==
  /\ pc = "quit"
  /\ session' = "closed"
  /\ log' = Append(log, Ev("QUIT", 0, 0, TRUE))
  /\ Exit("ok", "none")
  /\ UNCHANGED <<run, world, localFs, cwd, loopVars, getFileVars, fails>>

\* lines 200-201: after a run that completed, the script is started again
\* on the same tree and against the same server
Restart ==
  /\ pc = "exited"
  /\ status = "ok"
  /\ run < MaxRuns
  /\ run' = run + 1
  /\ pc' = "preflight"
  /\ status' = "running"
  /\ exc' = "none"
  /\ session' = "none"
  /\ cwd' = <<>>
  /\ dirs' = <<>>
  /\ i' = 0
  /\ dirDate' = None
  /\ files' = <<>>
  /\ j' = 0
  /\ myRet' = FALSE
  /\ log' = <<>>
  /\ UNCHANGED <<world, localFs, source, target, doDownload, target_size,
                 target_ctime, source_size, source_ctime, fails>>

Next ==
  \/ Preflight
  \/ Connect
  \/ Login
  \/ CwdBase
  \/ ListTop
  \/ LoopHead
  \/ EnsureOutDir
  \/ EnterDir
  \/ ListFiles
  \/ FileLoop
  \/ GetFileCheck
  \/ GetFileTransfer
  \/ ReturnToParent
  \/ Quit
  \/ Restart

Spec == Init /\ [][Next]_vars

\* ------------------------------------------------------------ vocabulary
Logged(e) == \E a \in 1..Len(log) : log[a] = e
\* a transfer attempt of getFile: the RETR it sent, or the open that failed
IsAttempt(e) == e.op \in {"RETR", "OPEN"}
AttemptAt(k, f) == \E a \in 1..Len(log) : IsAttempt(log[a]) /\ log[a].i = k /\ log[a].j = f
Transferred(k, f) == Logged(Ev("RETR", k, f, TRUE))
IsValidDir(name) == getDirDate(name).kind = "date"
NonMatching(name) == getDirDate(name).kind = "None"
\* the transfer step of getFile sends RETR
RetrSent == Len(log') = Len(log) + 1 /\ log'[Len(log')].op = "RETR"
\* no local file that was there is different afterwards
FilesKept(f, g) == \A p \in DOMAIN f : p \in DOMAIN g /\ g[p] = f[p]
UnderBase(c) == c = ftpPath \/ (IsDateDir(c) /\ SubSeq(c, 1, Len(ftpPath)) = ftpPath)

\* C1: in getFile, when the target exists, both sizes and times were read,
\* the sizes are equal and the remote time is strictly earlier than the local
\* one, no RETR is sent and the target file is left as it is.
C1_SkipWhenCurrent ==
  [][(/\ pc = "retr"
      /\ target_size # Unset
      /\ source_size # Unset
      /\ source_size = target_size
      /\ source_ctime < target_ctime)
     => (~RetrSent /\ fs' = fs)]_vars

\* C2: a second run after a first run without failures, with every local
\* file at least as new as the remote one, sends no RETR and changes no
\* local file.
C2_SecondRunIdle ==
  [][(/\ run > 1
      /\ fails' = 0
      /\ \A p \in DOMAIN fs : fs[p].exists => fs[p].ctime >= RemoteMTime)
     => (~RetrSent /\ FilesKept(fs, fs'))]_vars

\* C3: a listing entry that does not match cdas2.<8 digits> is skipped:
\* when nothing fails and every other entry is a valid date-directory, the
\* run ends normally, logged out, with every file of every valid
\* date-directory transferred.
C3_BadEntrySkipped ==
  (/\ pc = "exited"
   /\ fails = 0
   /\ \E k \in 1..Len(dirs) : NonMatching(dirs[k])
   /\ \A k \in 1..Len(dirs) : NonMatching(dirs[k]) \/ IsValidDir(dirs[k]))
  => /\ status = "ok"
     /\ session = "closed"
     /\ \A k \in 1..Len(dirs) :
          IsValidDir(dirs[k]) =>
            \A f \in 1..Len(remoteFiles) : Transferred(k, f)

\* C4: when the target's size and time were read and the size or time of
\* the remote file cannot be read, getFile goes on to the transfer with
\* doDownload set and the run goes on.
C4_RemoteMetadataFailureDownloads ==
  [][(/\ pc = "getFile"
      /\ IsRemoteFile(cwd, source)
      /\ target_size' # Unset
      /\ source_size' = Unset)
     => (pc' = "retr" /\ doDownload' /\ status' = "running")]_vars

\* C5: after a failed change into date-directory k no listing is requested,
\* no transfer is attempted and no return to the parent is sent for k.
C5_FailedEnterSkipsDir ==
  \A a, b \in 1..Len(log) :
    (a < b /\ log[a].op = "CWD" /\ log[a].i > 0 /\ ~log[a].ok /\ log[b].i = log[a].i)
    => log[b].op \notin {"NLST", "RETR", "OPEN", "CDUP"}

\* C6: the working directory is the base path at the start of every
\* iteration of the outer loop and at logout, it is never outside the base
\* path and its date-directories while the walker runs, and a return to the
\* parent is sent once for each date-directory entered and for no other.
C6_EnterLeavePaired ==
  /\ pc \in {"loop", "outdir", "enter", "quit"} => cwd = ftpPath
  /\ pc \in {"list", "files", "getFile", "retr", "leave"} => UnderBase(cwd)
  /\ \A k \in 1..Len(dirs) :
       /\ Cardinality({a \in 1..Len(log) : log[a].op = "CDUP" /\ log[a].i = k}) <= 1
       /\ (\E a \in 1..Len(log) : log[a].op = "CDUP" /\ log[a].i = k)
            => Logged(Ev("CWD", k, 0, TRUE))
       /\ (Logged(Ev("CWD", k, 0, TRUE)) /\ (i > k \/ pc = "quit" \/ status = "ok"))
            => Logged(Ev("CDUP", k, 0, TRUE))

\* C7: when os.mkdir of the output sub-directory fails, the walker goes to
\* the next listing entry without entering the remote directory and without
\* sending anything on the session; the run goes on.
C7_MkdirFailureSkipsDir ==
  [][(/\ pc = "outdir"
      /\ OutDir(dirDate) \in DOMAIN ldirs'
      /\ ~ldirs'[OutDir(dirDate)])
     => (/\ pc' = "loop"
         /\ i' = i + 1
         /\ status' = "running"
         /\ cwd' = cwd
         /\ log' = log)]_vars

\* C8: a failed listing inside date-directory k is followed by the return
\* to the parent, no transfer is attempted for k, and when it is the only
\* failure of a run over valid date-directories the run ends normally with
\* every file of every other date-directory transferred.
C8_ListingFailureIsolated ==
  \A k \in 1..Len(dirs) :
    (Logged(Ev("CWD", k, 0, TRUE)) /\ Logged(Ev("NLST", k, 0, FALSE)))
    => /\ \A f \in 1..MaxFiles + 1 : ~AttemptAt(k, f)
       /\ (pc = "leave" /\ i = k)
            \/ \E a \in 2..Len(log) :
                 log[a - 1] = Ev("NLST", k, 0, FALSE) /\ log[a].op = "CDUP" /\ log[a].i = k
       /\ (/\ pc = "exited"
           /\ fails = 1
           /\ \A m \in 1..Len(dirs) : IsValidDir(dirs[m]))
          => /\ status = "ok"
             /\ cwd = ftpPath
             /\ \A m \in 1..Len(dirs) :
                  m # k => \A f \in 1..Len(remoteFiles) : Transferred(m, f)

\* C8 witness: the listing of the first date-directory failed and the files
\* of the one after it were transferred in the same run.
C8_Witness ==
  /\ pc = "exited"
  /\ Logged(Ev("CWD", 1, 0, TRUE))
  /\ Logged(Ev("NLST", 1, 0, FALSE))
  /\ Len(dirs) >= 2
  /\ Len(remoteFiles) >= 1
  /\ \A f \in 1..Len(remoteFiles) : Transferred(2, f)

\* C9: a process that connected has closed its session when it ends.
C9_SessionReleased ==
  (pc = "exited" /\ Logged(Ev("CONNECT", 0, 0, TRUE))) => session = "closed"

\* C10: a failed transfer makes getFile return False and the walker go to
\* the next file of the same directory, and no file of a listing is
\* attempted twice in a run.
C10_FailedTransferNoRetry ==
  [][/\ (/\ pc = "retr"
         /\ Len(log') = Len(log) + 1
         /\ IsAttempt(log'[Len(log')])
         /\ ~log'[Len(log')].ok)
        => /\ myRet' = FALSE
           /\ pc' = "files"
           /\ status' = "running"
           /\ i' = i
           /\ j' = j + 1
           /\ cwd' = cwd
           /\ files' = files
     /\ \A a, b \in 1..Len(log') :
          (a # b /\ IsAttempt(log'[a]) /\ IsAttempt(log'[b]))
          => <<log'[a].i, log'[a].j>> # <<log'[b].i, log'[b].j>>]_vars

\* C10 witness: the transfer of the first file of a directory failed and the
\* second file of the same directory was attempted after it.
C10_Witness ==
  \E a, b \in 1..Len(log) :
    /\ a < b
    /\ log[a].op = "RETR" /\ ~log[a].ok /\ log[a].j = 1
    /\ IsAttempt(log[b]) /\ log[b].i = log[a].i /\ log[b].j = 2
    /\ IsDateDir(cwd)

\* the transfer step of getFile ends with a failed attempt: the open of the
\* target failed, or the RETR did
AttemptFailed ==
  /\ Len(log') = Len(log) + 1
  /\ IsAttempt(log'[Len(log')])
  /\ ~log'[Len(log')].ok
\* the file at path p of f was written in run r
WrittenIn(f, p, r) == f[p].exists /\ f[p].src # NoPath /\ f[p].ctime = Clock(r)

\* C11: when the target does not exist as getFile is called and the transfer
\* fails, the target does not exist after getFile returns: no empty or
\* partial file is left at the local path.
C11_FailedTransferLeavesNoFile ==
  [][(/\ pc = "retr"
      /\ IsRemoteFile(cwd, source)
      /\ ~fs[target].exists
      /\ AttemptFailed)
     => ~fs'[target].exists]_vars

\* C12: a failure of the connection, of the login, of the change to the base
\* path or of the listing of the base path ends the run at once with a
\* non-zero status; in a run that ended so no date-directory was entered, no
\* transfer was attempted and no local sub-directory or file was touched.
C12_FatalTier ==
  [][/\ (pc \in {"connect", "login", "cwdBase", "listTop"} /\ fails' # fails)
        => (pc' = "exited" /\ status' = "fatal")
     /\ status' = "fatal"
        => /\ i' = 0
           /\ \A a \in 1..Len(log') : log'[a].i = 0 /\ ~IsAttempt(log'[a])
     /\ i = 0 => UNCHANGED localFs]_vars

\* C12 witness: the listing of the base path failed and the run ended with
\* the fatal status after a successful connection, login and change of
\* directory.
C12_Witness ==
  /\ pc = "exited"
  /\ status = "fatal"
  /\ Logged(Ev("CWD", 0, 0, TRUE))
  /\ Logged(Ev("NLST", 0, 0, FALSE))
  /\ i = 0

\* C13: a run in which the root exists and the connection, the login, the
\* change to the base path and its listing succeed ends normally, whatever
\* non-matching entries, directory creation, entry or listing failures,
\* metadata failures or transfer failures it met.
C13_LocalFailuresEndNormally ==
  (/\ pc = "exited"
   /\ root
   /\ Logged(Ev("NLST", 0, 0, TRUE))
   /\ \A k \in 1..Len(dirs) : NonMatching(dirs[k]) \/ IsValidDir(dirs[k])
   /\ \A a \in 1..Len(log) : log[a].op = "CDUP" => log[a].ok)
  => status = "ok"

\* C14: when the target does not exist, or exists but its size or time
\* cannot be read, getFile goes to the transfer with doDownload set, without
\* asking the server for the size or time of the source and without sending
\* anything, the same in both cases; the transfer is then attempted.
C14_NoLocalMetadataDownloads ==
  [][/\ (pc = "getFile" /\ target_size' = Unset)
        => /\ pc' = "retr"
           /\ doDownload'
           /\ source_size' = Unset
           /\ source_ctime' = Unset
           /\ log' = log
           /\ status' = "running"
     /\ (pc = "retr" /\ target_size = Unset)
        => /\ source_size = Unset
           /\ Len(log') = Len(log) + 1
           /\ IsAttempt(log'[Len(log')])]_vars

\* C14 witness: the target exists, its size and time could not be read, and
\* getFile is about to transfer without having asked the server.
C14_Witness ==
  /\ pc = "retr"
  /\ fs[target].exists
  /\ target_size = Unset
  /\ source_size = Unset
  /\ doDownload

\* C15: for an existing target whose size and time and the source's size and
\* time were read, getFile sets doDownload and attempts the transfer when the
\* sizes differ or the remote time is not earlier than the local one.
C15_DifferentOrNotOlderDownloads ==
  [][/\ (/\ pc = "getFile"
         /\ target_size' # Unset
         /\ source_size' # Unset
         /\ (source_size' # target_size' \/ source_ctime' >= target_ctime'))
        => (doDownload' /\ pc' = "retr")
     /\ (/\ pc = "retr"
         /\ target_size # Unset
         /\ source_size # Unset
         /\ (source_size # target_size \/ source_ctime >= target_ctime))
        => /\ doDownload
           /\ Len(log') = Len(log) + 1
           /\ IsAttempt(log'[Len(log')])]_vars

\* C15 witness: equal sizes and equal times, and getFile is about to
\* transfer with doDownload set.
C15_Witness ==
  /\ pc = "retr"
  /\ target_size # Unset
  /\ source_size = target_size
  /\ source_ctime = target_ctime
  /\ doDownload

\* C16: getDirDate returns a date or None for every name of a listing and
\* never raises, so no name ends the walker.
C16_GetDirDateTotal ==
  /\ dirDate.kind \in {"None", "date"}
  /\ exc # "ValueError:26"

\* C17: when the root does not exist the run ends at once with the fatal
\* status, before any session operation and without touching the local
\* tree; the root is never created, and a sub-directory comes to exist only
\* beneath an existing root, for the valid date-directory being processed.
C17_PreflightCheck ==
  [][/\ root' = root
     /\ ~root => /\ pc = "preflight"
                 /\ pc' = "exited"
                 /\ status' = "fatal"
                 /\ log' = <<>>
                 /\ session' = "none"
                 /\ ldirs' = <<>>
                 /\ fs' = <<>>
     /\ \A d \in DOMAIN ldirs' :
          (ldirs'[d] /\ ~(d \in DOMAIN ldirs /\ ldirs[d]))
          => /\ root
             /\ pc = "outdir"
             /\ IsValidDir(dirs[i])
             /\ d = OutDir(getDirDate(dirs[i]))]_vars

\* C17 witness: the root does not exist and the run has ended with the fatal
\* status, nothing sent and nothing created.
C17_Witness ==
  /\ ~root
  /\ pc = "exited"
  /\ status = "fatal"
  /\ log = <<>>

\* C18: getFile returns True when the file did not need to be downloaded,
\* whatever a transfer would have done, True when the transfer succeeded and
\* False when a required transfer failed.
C18_ReturnValue ==
  [][pc = "retr"
     => /\ ~doDownload => myRet' = TRUE
        /\ (doDownload /\ AttemptFailed) => myRet' = FALSE
        /\ (doDownload /\ RetrSent /\ ~AttemptFailed) => myRet' = TRUE]_vars

\* C19: distinct files of the listing of a date-directory have distinct
\* local paths, and a local file written by a transfer of this run is not
\* the target of a later transfer of a different remote file in the same
\* run.
C19_TargetsDistinct ==
  [][/\ (pc \in {"files", "getFile", "retr"} /\ IsDateDir(cwd))
        => \A a, b \in 1..Len(files) :
             files[a] # files[b]
             => Target(dirDate, files[a]) # Target(dirDate, files[b])
     /\ (/\ pc = "retr"
         /\ IsRemoteFile(cwd, source)
         /\ WrittenIn(fs, target, run)
         /\ fs[target].complete
         /\ fs[target].src # Append(cwd, source))
        => fs' = fs]_vars

\* C20: when the target exists as getFile is called and the RETR fails, the
\* target's content and size after getFile returns are what they were.
C20_FailedTransferKeepsOldCopy ==
  [][(/\ pc = "retr"
      /\ IsRemoteFile(cwd, source)
      /\ fs[target].exists
      /\ RetrSent
      /\ AttemptFailed)
     => fs'[target] = fs[target]]_vars

====
